---------------------------- MODULE Spec2Model ----------------------------
(***************************************************************************)
(* The request-outcome and metrics core of the argo-rollouts-demo backend. *)
(* The current revision of the backend (src/unnamed/part_003) is modelled  *)
(* as a set of concurrent request handlers over the shared error rate, the *)
(* in-process counter vector, the external key-value store and the         *)
(* fire-and-forget increment goroutines.  The first revision kept in       *)
(* src/argo-rollouts-demo-be/api.go is modelled beside it.                 *)
(***************************************************************************)
EXTENDS Integers, Sequences, FiniteSets, TLC

VARIABLES
    errorRate,          \* the stored rate: a float64 (part_003:36)
    redisClient,        \* "client" or "nil" (part_003:41, 196-211)
    redis,              \* the external store: key -> count (absent key = 0)
    httpRequestsTotal,  \* the in-process counter vector: label -> count
    pending,            \* key -> number of `go redisClient.Incr` not yet run
    rngMu,              \* holder of rngMu (a worker) or 0
    mu,                 \* holder of mu in the first revision, or 0
    flaky,              \* whether operations on the external store may fail
    version,            \* the version tag read from the environment at start
    req,                \* worker -> the request it is handling, with its locals
    resp,               \* worker -> the last response it wrote
    client              \* the environment: what it may still send, what it saw

vars == <<errorRate, redisClient, redis, httpRequestsTotal, pending, rngMu, mu,
          flaky, version, req, resp, client>>

-----------------------------------------------------------------------------
(* Bounds of the model.                                                    *)

NumWorkers == 2        \* request handlers that can run at the same time
MaxRequests == 2       \* requests an unscripted client sends
SeqLen == 4            \* requests a client sends one after the other
BurstLen == 3          \* check requests a client sends at once
TenChecks == 10        \* the check requests of the spec's concrete scenario
RateLen == 2           \* requests of a client that only sets and reads the rate
RestartLen == 4        \* events in the life of a process that is restarted
FirstLen == 3          \* the first requests a process receives
LoadLen == 3           \* checks, snapshots and resets a client sends at once

Workers == 1..NumWorkers

-----------------------------------------------------------------------------
(* float64.  A finite value is a sign, an exponent e and the 53 bits of    *)
(* its significand (value = 1.b2..b53 * 2^e), kept as three limbs of 17,   *)
(* 18 and 18 bits.  Division and multiplication round to nearest, ties to  *)
(* even, as Go's float64 arithmetic does.                                  *)

SigBits == 53

\* 100 < 2^7: the product of a 53-bit significand and 100 has at most 60 bits.
LimbBits == (SigBits + 1) \div 3
Limb == 2 ^ LimbBits
TopBits == SigBits - 2 * LimbBits + 7
ProdBits == TopBits + 2 * LimbBits

RECURSIVE BitsVal(_, _, _, _)
\* The integer spelled by bits[j..hi], most significant first.
BitsVal(bits, j, hi, acc) ==
    IF j > hi THEN acc ELSE BitsVal(bits, j + 1, hi, 2 * acc + bits[j])

\* A significand's bits (most significant first) as limbs, and back.
Pack(bits) ==
    <<BitsVal(bits, 1, SigBits - 2 * LimbBits, 0),
      BitsVal(bits, SigBits - 2 * LimbBits + 1, SigBits - LimbBits, 0),
      BitsVal(bits, SigBits - LimbBits + 1, SigBits, 0)>>

Unpack(man) ==
    [k \in 1..SigBits |->
        IF k <= SigBits - 2 * LimbBits
        THEN (man[1] \div 2 ^ (SigBits - 2 * LimbBits - k)) % 2
        ELSE IF k <= SigBits - LimbBits
             THEN (man[2] \div 2 ^ (SigBits - LimbBits - k)) % 2
             ELSE (man[3] \div 2 ^ (SigBits - k)) % 2]

Float(neg, e, bits) == [neg |-> neg, zero |-> FALSE, exp |-> e, man |-> Pack(bits)]

FZero == [neg |-> FALSE, zero |-> TRUE, exp |-> 0, man |-> <<0, 0, 0>>]

RECURSIVE Scale(_, _, _)
\* n/d brought into [1,2) by doubling one side; the exponent that does it.
Scale(n, d, e) ==
    IF n >= 2 * d THEN Scale(n, 2 * d, e + 1)
    ELSE IF n < d THEN Scale(2 * n, d, e - 1)
    ELSE <<n, d, e>>

RECURSIVE LongDiv(_, _, _, _)
\* k more quotient bits of r/d (r < d), appended to acc; the last remainder.
LongDiv(r, d, k, acc) ==
    IF k = 0 THEN <<acc, r>>
    ELSE LET b == IF 2 * r >= d THEN 1 ELSE 0
         IN  LongDiv(2 * r - b * d, d, k - 1, Append(acc, b))

\* bits + 1 (most significant first); <<bits, carry out>>.
IncBits(bits) ==
    LET zs == {i \in 1..SigBits : bits[i] = 0}
    IN  IF zs = {} THEN <<[i \in 1..SigBits |-> 0], 1>>
        ELSE LET z == CHOOSE i \in zs : \A j \in zs : j <= i
             IN  <<[i \in 1..SigBits |->
                      IF i < z THEN bits[i] ELSE IF i = z THEN 1 ELSE 0], 0>>

\* Round a significand to nearest even, given the round bit and the sticky bit.
RoundEven(neg, e, bits, rb, sticky) ==
    IF rb = 1 /\ (sticky \/ bits[SigBits] = 1)
    THEN LET inc == IncBits(bits)
         IN  IF inc[2] = 1
             THEN Float(neg, e + 1, [i \in 1..SigBits |-> IF i = 1 THEN 1 ELSE 0])
             ELSE Float(neg, e, inc[1])
    ELSE Float(neg, e, bits)

\* float64(n/d) for integers n and d > 0: the correctly rounded quotient.
FDiv(n, d) ==
    IF n = 0 THEN FZero
    ELSE LET a  == IF n < 0 THEN -n ELSE n
             s  == Scale(a, d, 0)
             q  == LongDiv(s[1] - s[2], s[2], SigBits - 1, <<1>>)
             rb == IF 2 * q[2] >= s[2] THEN 1 ELSE 0
             st == (2 * q[2] - rb * s[2]) # 0
         IN  RoundEven(n < 0, s[3], q[1], rb, st)

\* The 60 bits of man * 100, limb by limb with the carries.
Times100(man) ==
    LET t0 == man[3] * 100
        t1 == man[2] * 100 + t0 \div Limb
        t2 == man[1] * 100 + t1 \div Limb
    IN  [k \in 1..ProdBits |->
            IF k <= TopBits THEN (t2 \div 2 ^ (TopBits - k)) % 2
            ELSE IF k <= TopBits + LimbBits
                 THEN ((t1 % Limb) \div 2 ^ (TopBits + LimbBits - k)) % 2
                 ELSE ((t0 % Limb) \div 2 ^ (ProdBits - k)) % 2]

\* f * 100.0 in float64: the exact product, then rounded.
FMul100(f) ==
    IF f.zero THEN f
    ELSE LET p  == Times100(f.man)
             i  == CHOOSE k \in 1..ProdBits :
                      p[k] = 1 /\ \A j \in 1..(k - 1) : p[j] = 0
             m  == [k \in 1..SigBits |-> p[i + k - 1]]
             rb == IF i + SigBits <= ProdBits THEN p[i + SigBits] ELSE 0
             st == \E k \in (i + SigBits + 1)..ProdBits : p[k] = 1
         IN  RoundEven(f.neg, f.exp - (SigBits - 1) + (ProdBits - i), m, rb, st)

\* a < b on significands: decided at the first limb where they differ.
ManLess(a, b) ==
    \E i \in 1..3 :
        /\ a[i] < b[i]
        /\ \A j \in 1..(i - 1) : a[j] = b[j]

\* |a| < |b|
MagLess(a, b) ==
    IF b.zero THEN FALSE
    ELSE IF a.zero THEN TRUE
    ELSE IF a.exp # b.exp THEN a.exp < b.exp
    ELSE ManLess(a.man, b.man)

\* a < b on float64 values
FLess(a, b) ==
    IF a.zero /\ b.zero THEN FALSE
    ELSE IF a.neg /\ ~a.zero
         THEN IF b.neg /\ ~b.zero THEN MagLess(b, a) ELSE TRUE
         ELSE IF b.neg /\ ~b.zero THEN FALSE ELSE MagLess(a, b)

FOne == FDiv(1, 1)

\* 1 - 2^-53: the largest value rng.Float64() returns.
FBelowOne == Float(FALSE, -1, [i \in 1..SigBits |-> 1])

-----------------------------------------------------------------------------
(* The HTTP surface.                                                       *)

StatusOK == 200
StatusBadRequest == 400
StatusInternalServerError == 500

Codes == {StatusOK, StatusInternalServerError}

\* The external store's keys: fmt.Sprintf("status_%d", statusCode).
Key(code) == IF code = StatusOK THEN "status_200" ELSE "status_500"
Keys == {Key(c) : c \in Codes}

\* The label pairs of http_requests_total the handlers use.
Labels ==
    {<<"/api/check", StatusOK>>, <<"/api/check", StatusInternalServerError>>,
     <<"/api/healthz", StatusOK>>,
     <<"/api/set-error-rate", StatusOK>>, <<"/api/set-error-rate", StatusBadRequest>>,
     <<"/api/error-rate", StatusOK>>, <<"/api/reset-metrics", StatusOK>>}

\* Every handler counting under the labels of a successful check.
IncAsCheck(vec, endpoint, code) ==
    [vec EXCEPT ![<<"/api/check", StatusOK>>] = @ + 1]

\* A vector that keeps only the child that was incremented last.
IncAlone(vec, endpoint, code) ==
    [l \in Labels |-> IF l = <<endpoint, code>> THEN vec[l] + 1 ELSE 0]

\* httpRequestsTotal.WithLabelValues(endpoint, code).Inc()
Inc(vec, endpoint, code) == [vec EXCEPT ![<<endpoint, code>>] = @ + 1]

\* httpRequestsTotal.Reset(): every child is deleted.
VecReset(vec) == [l \in Labels |-> 0]

\* A request body of set-error-rate: malformed, or {"value": num/den}.
BadJSON == [ok |-> FALSE, num |-> 0, den |-> 1]
Value(n, d) == [ok |-> TRUE, num |-> n, den |-> d]
NoBody == Value(0, 1)
Bodies == {BadJSON, Value(-1, 2), Value(0, 1), Value(7, 1), Value(100, 1),
           Value(201, 2)}

\* rng.Float64(): a value in [0,1); the least, the middle and the greatest.
Samples == {FZero, FDiv(1, 2), FBelowOne}

Request(op, body, par) == [op |-> op, body |-> body, par |-> par]

\* The routes main registers, with the bodies a client may send.
Routes ==
    {Request(op, NoBody, TRUE) :
        op \in {"check", "healthz", "error-rate", "reset-metrics", "metrics"}}
    \cup {Request("set-error-rate", b, TRUE) : b \in Bodies}

Response(op, status, c200, c500, value) ==
    [op |-> op, status |-> status, count200 |-> c200, count500 |-> c500,
     value |-> value]

NoResponse == Response("none", 0, 0, 0, FZero)

\* The values VERSION may have in the environment of the process.
Versions == {"1", "2"}

\* A response whose header was set only when the request succeeded.
TaggedOnSuccess(r, v) ==
    [f \in DOMAIN r \cup {"xVersion"} |->
        IF f = "xVersion" THEN (IF r.status = StatusOK THEN v ELSE "")
        ELSE r[f]]

\* c.Response().Header().Set("X-Version", version) on a response.
Tagged(r, v) ==
    [f \in DOMAIN r \cup {"xVersion"} |-> IF f = "xVersion" THEN v ELSE r[f]]

\* A worker with no request, and the locals of a handler at its entry.  The
\* fields after count500 record what a metrics request read: the values the
\* store reported, whether it fell back, the values the vector held when it
\* did, and the pairs each source held at some instant of the request; quiet
\* records that no increment was outstanding when the request came in.
Idle ==
    [op |-> "idle", pc |-> "idle", body |-> NoBody, rate |-> FZero, code |-> 0,
     count200 |-> 0, count500 |-> 0, ext200 |-> 0, ext500 |-> 0,
     fellBack |-> FALSE, loc200 |-> 0, loc500 |-> 0,
     heldExt |-> {}, heldLoc |-> {}, quiet |-> FALSE]

Busy == {w \in Workers : req[w].op # "idle"}

\* What the client may send now: anything on its menu while its budget lasts,
\* or the next request of its script (after the responses it waits for).
Offered ==
    IF client.left > 0 THEN client.menu
    ELSE IF client.todo # <<>> /\ (Head(client.todo).par \/ Busy = {})
         THEN {Head(client.todo)}
         ELSE {}

Sent(r) ==
    IF client.left > 0 THEN [client EXCEPT !.left = @ - 1]
    ELSE [client EXCEPT !.todo = Tail(@),
                        !.sent = Append(@, r),
                        !.peak = IF Cardinality(Busy) + 1 > @
                                 THEN Cardinality(Busy) + 1 ELSE @]

\* A scripted client keeps the requests it sent and the responses it
\* received, both in order.
Received(r) ==
    IF client.menu = {} THEN [client EXCEPT !.log = Append(@, r)] ELSE client

FreeClient(menu) ==
    [menu |-> menu, left |-> MaxRequests, todo |-> <<>>, sent |-> <<>>,
     log |-> <<>>, peak |-> 0]

ScriptClient(todo) ==
    [menu |-> {}, left |-> 0, todo |-> todo, sent |-> <<>>, log |-> <<>>,
     peak |-> 0]

-----------------------------------------------------------------------------
(* The current revision: src/unnamed/part_003.                             *)

\* The state main leaves behind: the rate is the zero value, the Ping decides
\* whether redisClient stays or is set to nil, every counter is empty.
Started(cl) ==
    /\ errorRate = FZero
    /\ redisClient \in {"client", "nil"}
    /\ flaky \in (IF redisClient = "client" THEN BOOLEAN ELSE {FALSE})
    /\ redis = [k \in Keys |-> 0]
    /\ httpRequestsTotal = [l \in Labels |-> 0]
    /\ pending = [k \in Keys |-> 0]
    /\ rngMu = 0
    /\ mu = 0
    /\ version \in Versions
    /\ req = [w \in Workers |-> Idle]
    /\ resp = [w \in Workers |-> NoResponse]
    /\ client = cl

\* How an operation on the external store can end: true when it is served.
Served == IF flaky THEN BOOLEAN ELSE {TRUE}

At(w, op, pc) == req[w].op = op /\ req[w].pc = pc

ExtPair(store) == <<store["status_200"], store["status_500"]>>

LocPair(vec) ==
    <<vec[<<"/api/check", StatusOK>>],
      vec[<<"/api/check", StatusInternalServerError>>]>>

\* Every metrics request in progress has now also seen these counter values.
Observe(rq, store, vec) ==
    [w \in Workers |->
        IF rq[w].op = "metrics"
        THEN [rq[w] EXCEPT !.heldExt = @ \cup {ExtPair(store)},
                           !.heldLoc = @ \cup {LocPair(vec)}]
        ELSE rq[w]]

Goto(w, pc) == [req EXCEPT ![w].pc = pc]

\* The handler returns: the worker is free and the client has the response.
Return(w, r) ==
    /\ req' = [req EXCEPT ![w] = Idle]
    /\ resp' = [resp EXCEPT ![w] = r]
    /\ client' = Received(r)

Plain(op, status) == Response(op, status, 0, 0, FZero)

Entry(op) ==
    CASE op = "check" -> "load"
      [] op = "healthz" -> "inc"
      [] op = "set-error-rate" -> "decode"
      [] op = "error-rate" -> "load"
      [] op = "reset-metrics" -> "del"
      [] op = "metrics" -> "get200"

\* No `go redisClient.Incr` is waiting to run.
Quiet == \A k \in Keys : pending[k] = 0

\* Handlers have no identity: a request takes the first free worker.
Free(w) == req[w].op = "idle" /\ \A v \in Workers : v < w => req[v].op # "idle"

\* The server starts a handler for a request.
Accept(w) ==
    /\ Free(w)
    /\ \E r \in Offered :
          /\ req' = Observe([req EXCEPT ![w] = [Idle EXCEPT !.op = r.op,
                                                            !.pc = Entry(r.op),
                                                            !.body = r.body,
                                                            !.quiet = Quiet]],
                            redis, httpRequestsTotal)
          /\ client' = Sent(r)
    /\ UNCHANGED <<errorRate, redisClient, redis, httpRequestsTotal, pending,
                   rngMu, mu, flaky, version, resp>>

\* getErrorRate: the atomic load; the bits are the float64 that was stored.
getErrorRate == errorRate

\* checkHandler, line 55
CheckLoad(w) ==
    /\ At(w, "check", "load")
    /\ req' = [req EXCEPT ![w].rate = getErrorRate, ![w].pc = "lock"]
    /\ UNCHANGED <<errorRate, redisClient, redis, httpRequestsTotal, pending,
                   rngMu, mu, flaky, version, resp, client>>

\* checkHandler, line 59
CheckLock(w) ==
    /\ At(w, "check", "lock")
    /\ rngMu = 0
    /\ rngMu' = w
    /\ req' = Goto(w, "draw")
    /\ UNCHANGED <<errorRate, redisClient, redis, httpRequestsTotal, pending,
                   mu, flaky, version, resp, client>>

\* A comparison that also fails a sample equal to the rate.
DecideOrEqual(sample, rate) ==
    IF ~FLess(rate, sample) THEN StatusInternalServerError ELSE StatusOK

\* The status a sample gives under a rate.
Decide(sample, rate) ==
    IF FLess(sample, rate) THEN StatusInternalServerError ELSE StatusOK

\* A handler that unlocks rngMu only when it returns: it draws and keeps
\* the lock.
CheckDrawLocked(w) ==
    /\ At(w, "check", "draw")
    /\ \E sample \in Samples :
          req' = [req EXCEPT ![w].code = Decide(sample, req[w].rate),
                             ![w].pc = "inc"]
    /\ UNCHANGED <<errorRate, redisClient, redis, httpRequestsTotal, pending,
                   rngMu, mu, flaky, version, resp, client>>

\* checkHandler, lines 60-63
CheckDraw(w) ==
    /\ At(w, "check", "draw")
    /\ \E sample \in Samples :
          req' = [req EXCEPT ![w].code = Decide(sample, req[w].rate),
                             ![w].pc = "inc"]
    /\ rngMu' = 0
    /\ UNCHANGED <<errorRate, redisClient, redis, httpRequestsTotal, pending,
                   mu, flaky, version, resp, client>>

\* A counter that loses updates: it is set, not incremented.
CountedOnce(vec, code) == [vec EXCEPT ![<<"/api/check", code>>] = 1]

\* checkHandler, line 66: the counter of this request's status.
Counted(vec, code) == Inc(vec, "/api/check", code)

CheckInc(w) ==
    /\ At(w, "check", "inc")
    /\ httpRequestsTotal' = Counted(httpRequestsTotal, req[w].code)
    /\ req' = Observe(Goto(w, "go"), redis, httpRequestsTotal')
    /\ UNCHANGED <<errorRate, redisClient, redis, pending, rngMu, mu, flaky, version,
                   resp, client>>

\* A handler that sends every increment twice.
SpawnTwice(p, code) ==
    IF redisClient # "nil" THEN [p EXCEPT ![Key(code)] = @ + 2] ELSE p

\* The goroutines after `go redisClient.Incr(redisCtx, key)`.
Spawn(p, code) ==
    IF redisClient # "nil" THEN [p EXCEPT ![Key(code)] = @ + 1] ELSE p

\* checkHandler, lines 69-76
CheckRespond(w) ==
    /\ At(w, "check", "go")
    /\ pending' = Spawn(pending, req[w].code)
    /\ Return(w, Tagged(Plain("check", req[w].code), version))
    /\ UNCHANGED <<errorRate, redisClient, redis, httpRequestsTotal, rngMu, mu,
                   flaky, version>>

\* A spawned redisClient.Incr runs: the store adds one, or the call fails and
\* nobody looks at its result.
RedisIncr ==
    \E k \in Keys, ok \in Served :
        /\ pending[k] > 0
        /\ pending' = [pending EXCEPT ![k] = @ - 1]
        /\ redis' = IF ok THEN [redis EXCEPT ![k] = @ + 1] ELSE redis
        /\ req' = Observe(req, redis', httpRequestsTotal)
        /\ UNCHANGED <<errorRate, redisClient, httpRequestsTotal, rngMu, mu,
                       flaky, version, resp, client>>

\* healthzHandler
Healthz(w) ==
    /\ At(w, "healthz", "inc")
    /\ httpRequestsTotal' = Inc(httpRequestsTotal, "/api/healthz", StatusOK)
    /\ Return(w, Plain("healthz", StatusOK))
    /\ UNCHANGED <<errorRate, redisClient, redis, pending, rngMu, mu, flaky, version>>

\* The decoded value is outside [0,100].
OutOfRange(body) == body.num < 0 \/ body.num > 100 * body.den

\* A handler that drops the decoder's error and goes on with the zero value.
AcceptedUndecoded(body) == ~OutOfRange(body)

\* setErrorRate, lines 87 and 92: the body decodes and the value is in range.
Accepted(body) == body.ok /\ ~OutOfRange(body)

\* newRate.Value / 100.0
Fraction(body) == FDiv(body.num, body.den * 100)

\* A store that is not atomic: the exponent is written, the significand of
\* the old value is still there.
storeErrorRateTorn(rate) ==
    errorRate' = [rate EXCEPT !.man = errorRate.man]

\* storeErrorRate: the atomic store of the float64's bits.
storeErrorRate(rate) == errorRate' = rate

\* setErrorRate, lines 86-97
SetDecode(w) ==
    /\ At(w, "set-error-rate", "decode")
    /\ IF Accepted(req[w].body)
       THEN /\ storeErrorRate(Fraction(req[w].body))
            /\ req' = Goto(w, "inc")
            /\ UNCHANGED <<httpRequestsTotal, resp, client>>
       ELSE /\ httpRequestsTotal' =
                  Inc(httpRequestsTotal, "/api/set-error-rate", StatusBadRequest)
            /\ Return(w, Plain("set-error-rate", StatusBadRequest))
            /\ UNCHANGED errorRate
    /\ UNCHANGED <<redisClient, redis, pending, rngMu, mu, flaky, version>>

\* setErrorRate, lines 99-100
SetRespond(w) ==
    /\ At(w, "set-error-rate", "inc")
    /\ httpRequestsTotal' =
          Inc(httpRequestsTotal, "/api/set-error-rate", StatusOK)
    /\ Return(w, Plain("set-error-rate", StatusOK))
    /\ UNCHANGED <<errorRate, redisClient, redis, pending, rngMu, mu, flaky, version>>

\* getErrorRateHandler, line 104
RateLoad(w) ==
    /\ At(w, "error-rate", "load")
    /\ req' = [req EXCEPT ![w].rate = FMul100(getErrorRate), ![w].pc = "inc"]
    /\ UNCHANGED <<errorRate, redisClient, redis, httpRequestsTotal, pending,
                   rngMu, mu, flaky, version, resp, client>>

\* getErrorRateHandler, lines 106-107
RateRespond(w) ==
    /\ At(w, "error-rate", "inc")
    /\ httpRequestsTotal' = Inc(httpRequestsTotal, "/api/error-rate", StatusOK)
    /\ Return(w, Response("error-rate", StatusOK, 0, 0, req[w].rate))
    /\ UNCHANGED <<errorRate, redisClient, redis, pending, rngMu, mu, flaky, version>>

\* redisClient.Del(redisCtx, "status_200", "status_500"): both keys go at once
\* when the store serves it; the handler only logs a failure.
Del(store, ok) == IF ok THEN [k \in Keys |-> 0] ELSE store

\* resetMetricsHandler, lines 122-126
ResetDel(w) ==
    /\ At(w, "reset-metrics", "del")
    /\ IF redisClient # "nil"
       THEN \E ok \in Served : redis' = Del(redis, ok)
       ELSE UNCHANGED redis
    /\ req' = Observe(Goto(w, "reset"), redis', httpRequestsTotal)
    /\ UNCHANGED <<errorRate, redisClient, httpRequestsTotal, pending, rngMu,
                   mu, flaky, version, resp, client>>

\* resetMetricsHandler, line 129
ResetVec(w) ==
    /\ At(w, "reset-metrics", "reset")
    /\ httpRequestsTotal' = VecReset(httpRequestsTotal)
    /\ req' = Observe(Goto(w, "inc"), redis, httpRequestsTotal')
    /\ UNCHANGED <<errorRate, redisClient, redis, pending, rngMu, mu, flaky, version,
                   resp, client>>

\* resetMetricsHandler, lines 131-132
ResetRespond(w) ==
    /\ At(w, "reset-metrics", "inc")
    /\ httpRequestsTotal' =
          Inc(httpRequestsTotal, "/api/reset-metrics", StatusOK)
    /\ Return(w, Plain("reset-metrics", StatusOK))
    /\ UNCHANGED <<errorRate, redisClient, redis, pending, rngMu, mu, flaky, version>>

\* redisClient.Get(redisCtx, key).Float64() with the error dropped: the count,
\* and 0 when the key is absent or the call fails.
Get(store, key, ok) == IF ok THEN store[key] ELSE 0

\* metricsHandler, lines 139-140
MetricsGet200(w) ==
    /\ At(w, "metrics", "get200")
    /\ IF redisClient # "nil"
       THEN \E ok \in Served :
               req' = [req EXCEPT ![w].count200 = Get(redis, "status_200", ok),
                                  ![w].ext200 = Get(redis, "status_200", ok),
                                  ![w].pc = "get500"]
       ELSE req' = Goto(w, "collect")
    /\ UNCHANGED <<errorRate, redisClient, redis, httpRequestsTotal, pending,
                   rngMu, mu, flaky, version, resp, client>>

\* metricsHandler, line 141
MetricsGet500(w) ==
    /\ At(w, "metrics", "get500")
    /\ \E ok \in Served :
          req' = [req EXCEPT ![w].count500 = Get(redis, "status_500", ok),
                             ![w].ext500 = Get(redis, "status_500", ok),
                             ![w].pc = "collect"]
    /\ UNCHANGED <<errorRate, redisClient, redis, httpRequestsTotal, pending,
                   rngMu, mu, flaky, version, resp, client>>

\* A fallback that is taken as soon as one of the counts is zero.
FallBackAny(count200, count500) == count200 = 0 \/ count500 = 0

\* metricsHandler, line 145
FallBack(count200, count500) == count200 = 0 /\ count500 = 0

\* metricsHandler, lines 145-177: the counts after the fallback, which takes
\* the values of the "/api/check" children of the vector.
Collected(count200, count500, vec) ==
    IF FallBack(count200, count500) THEN LocPair(vec)
    ELSE <<count200, count500>>

MetricsCollect(w) ==
    /\ At(w, "metrics", "collect")
    /\ LET fb == FallBack(req[w].count200, req[w].count500)
           c  == Collected(req[w].count200, req[w].count500, httpRequestsTotal)
       IN  req' = [req EXCEPT
                     ![w].fellBack = fb,
                     ![w].loc200 = IF fb THEN LocPair(httpRequestsTotal)[1] ELSE 0,
                     ![w].loc500 = IF fb THEN LocPair(httpRequestsTotal)[2] ELSE 0,
                     ![w].count200 = c[1],
                     ![w].count500 = c[2],
                     ![w].pc = "respond"]
    /\ UNCHANGED <<errorRate, redisClient, redis, httpRequestsTotal, pending,
                   rngMu, mu, flaky, version, resp, client>>

\* Every snapshot taken for one that met no outstanding increment.
SettledAlways(r, q) ==
    [f \in DOMAIN r \cup {"quiet"} |-> IF f = "quiet" THEN TRUE ELSE r[f]]

\* A snapshot, with the record of whether an increment was outstanding when
\* its request came in.
Settled(r, q) ==
    [f \in DOMAIN r \cup {"quiet"} |-> IF f = "quiet" THEN q ELSE r[f]]

\* metricsHandler, lines 179-182
MetricsRespond(w) ==
    /\ At(w, "metrics", "respond")
    /\ Return(w, Settled(Response("metrics", StatusOK, req[w].count200,
                                  req[w].count500, FZero), req[w].quiet))
    /\ UNCHANGED <<errorRate, redisClient, redis, httpRequestsTotal, pending,
                   rngMu, mu, flaky, version>>

Check(w) ==
    CheckLoad(w) \/ CheckLock(w) \/ CheckDraw(w) \/ CheckInc(w) \/ CheckRespond(w)

SetRate(w) == SetDecode(w) \/ SetRespond(w)

GetRate(w) == RateLoad(w) \/ RateRespond(w)

ResetMetrics(w) == ResetDel(w) \/ ResetVec(w) \/ ResetRespond(w)

Metrics(w) ==
    MetricsGet200(w) \/ MetricsGet500(w) \/ MetricsCollect(w) \/ MetricsRespond(w)

\* Any client: up to MaxRequests requests of any kind, at any time.
Init == Started(FreeClient(Routes))

Next ==
    \/ \E w \in Workers :
          \/ Accept(w)
          \/ Check(w)
          \/ Healthz(w)
          \/ SetRate(w)
          \/ GetRate(w)
          \/ ResetMetrics(w)
          \/ Metrics(w)
    \/ RedisIncr

Spec == Init /\ [][Next]_vars

-----------------------------------------------------------------------------
(* Clients that follow a script.                                           *)

Seq1(op) == Request(op, NoBody, FALSE)

\* What a client sends one request after the other, each after the response
\* to the one before.  Under a rate of 7% a check can end either way.
SeqMenu ==
    {Seq1("check"), Seq1("reset-metrics"), Seq1("metrics"),
     Request("set-error-rate", Value(7, 1), FALSE)}

SeqScripts == [1..SeqLen -> SeqMenu]

InitSeq == \E s \in SeqScripts : Started(ScriptClient(s))

NextSeq ==
    \/ \E w \in Workers :
          \/ Accept(w)
          \/ Check(w)
          \/ SetRate(w)
          \/ ResetMetrics(w)
          \/ Metrics(w)
    \/ RedisIncr

SpecSeq == InitSeq /\ [][NextSeq]_vars

\* A burst: check requests sent without waiting for any response, after an
\* optional change of the rate.
Burst(n) == [i \in 1..n |-> Request("check", NoBody, TRUE)]

BurstScripts ==
    {prefix \o Burst(BurstLen) :
        prefix \in {<<>>} \cup
                   {<<Request("set-error-rate", b, FALSE)>> :
                       b \in {Value(7, 1), Value(100, 1)}}}

InitBurst == \E s \in BurstScripts : Started(ScriptClient(s))

NextBurst ==
    \/ \E w \in Workers : Accept(w) \/ Check(w) \/ SetRate(w)
    \/ RedisIncr

SpecBurst == InitBurst /\ [][NextBurst]_vars

\* The scenario of the rate at 100: a snapshot, the checks one after the
\* other, a snapshot.
TenScript ==
    <<Request("set-error-rate", Value(100, 1), FALSE), Seq1("metrics")>>
    \o [i \in 1..TenChecks |-> Seq1("check")] \o <<Seq1("metrics")>>

InitTen == Started(ScriptClient(TenScript))

NextTen ==
    \/ \E w \in Workers : Accept(w) \/ Check(w) \/ SetRate(w) \/ Metrics(w)
    \/ RedisIncr

SpecTen == InitTen /\ [][NextTen]_vars

\* A client that sets the rate and reads it back, one request at a time.
RateMenu ==
    {Request("set-error-rate", b, FALSE) : b \in Bodies}
    \cup {Seq1("error-rate")}

RateScripts == [1..RateLen -> RateMenu]

InitRate == \E s \in RateScripts : Started(ScriptClient(s))

NextRate == \E w \in Workers : Accept(w) \/ SetRate(w) \/ GetRate(w)

SpecRate == InitRate /\ [][NextRate]_vars

\* The first requests a process receives, sent without waiting for any
\* response: checks, reads of the rate, and requests that set it, with a
\* body that is accepted or one that is not JSON.  The process has the
\* default version, and its store, when it connected, serves every call.
FirstMenu ==
    {Request(op, NoBody, TRUE) : op \in {"check", "error-rate"}}
    \cup {Request("set-error-rate", b, TRUE) : b \in {Value(100, 1), BadJSON}}

FirstScripts == [1..FirstLen -> FirstMenu]

InitFirst ==
    /\ \E s \in FirstScripts : Started(ScriptClient(s))
    /\ ~flaky
    /\ version = "1"

NextFirst ==
    \/ \E w \in Workers : Accept(w) \/ Check(w) \/ SetRate(w) \/ GetRate(w)
    \/ RedisIncr

SpecFirst == InitFirst /\ [][NextFirst]_vars

\* Load: checks, snapshots and resets sent without waiting for any
\* response, to a process started with the default version on a store it
\* can reach (which may still fail to serve a call later).
LoadMenu ==
    {Request(op, NoBody, TRUE) : op \in {"check", "metrics", "reset-metrics"}}

InitLoad ==
    /\ \E s \in [1..LoadLen -> LoadMenu] : Started(ScriptClient(s))
    /\ redisClient = "client"
    /\ version = "1"

NextLoad ==
    \/ \E w \in Workers :
          \/ Accept(w)
          \/ Check(w)
          \/ ResetMetrics(w)
          \/ Metrics(w)
    \/ RedisIncr

SpecLoad == InitLoad /\ [][NextLoad]_vars

\* A store with no life of its own: its counters go when the process goes.
OutlivesNothing(store) == [k \in Keys |-> 0]

\* The external store is another process: what it holds when this process
\* stops is what it holds when the next one starts.
Outlives(store) == store

\* The operator stops the process and starts it again in the same
\* environment.  main, lines 242-258: Shutdown waits for the handlers, the
\* client is closed and the process exits, and with it the goroutines that
\* have not run; lines 35-52 and 195-211: the next process starts with the
\* zero rate, an empty vector and a client that the Ping keeps or drops.  In
\* the client's record of the restart are the counts the store held at the
\* stop and whether the next process has the store in use.
Restart ==
    /\ Busy = {}
    /\ \E r \in Offered :
          /\ r.op = "restart"
          /\ redisClient' \in {"client", "nil"}
          /\ flaky' \in (IF redisClient' = "client" THEN BOOLEAN ELSE {FALSE})
          /\ redis' = Outlives(redis)
          /\ client' =
                [Sent(r) EXCEPT
                    !.log = Append(@, [op |-> "restart", status |-> 0,
                                       count200 |-> ExtPair(redis)[1],
                                       count500 |-> ExtPair(redis)[2],
                                       value |-> FZero,
                                       inUse |-> redisClient' = "client"
                                                 /\ ~flaky'])]
    /\ errorRate' = FZero
    /\ httpRequestsTotal' = [l \in Labels |-> 0]
    /\ pending' = [k \in Keys |-> 0]
    /\ rngMu' = 0
    /\ UNCHANGED <<mu, version, req, resp>>

\* What happens to a process that is restarted between requests: the rate
\* is set to 100, checks and snapshots are made, the process is restarted.
RestartMenu ==
    {Seq1("check"), Seq1("metrics"), Seq1("restart"),
     Request("set-error-rate", Value(100, 1), FALSE)}

RestartScripts == [1..RestartLen -> RestartMenu]

InitRestart == \E s \in RestartScripts : Started(ScriptClient(s))

NextRestart ==
    \/ \E w \in Workers :
          \/ (\A r \in Offered : r.op # "restart") /\ Accept(w)
          \/ Check(w)
          \/ SetRate(w)
          \/ Metrics(w)
    \/ RedisIncr
    \/ Restart

SpecRestart == InitRestart /\ [][NextRestart]_vars

-----------------------------------------------------------------------------
(* The first revision: src/argo-rollouts-demo-be/api.go, lines 1-91.  The  *)
(* rate is a float64 under mu, there are no counters and no external store, *)
(* a failed check answers 400, and setErrorRate stores whatever it decodes. *)

RoutesV1 ==
    {Request(op, NoBody, TRUE) : op \in {"check", "healthz", "error-rate"}}
    \cup {Request("set-error-rate", b, TRUE) : b \in Bodies}

EntryV1(op) ==
    CASE op = "check" -> "lock"
      [] op = "healthz" -> "respond"
      [] op = "set-error-rate" -> "decode"
      [] op = "error-rate" -> "lock"

AcceptV1(w) ==
    /\ Free(w)
    /\ \E r \in Offered :
          /\ req' = [req EXCEPT ![w] = [Idle EXCEPT !.op = r.op,
                                                    !.pc = EntryV1(r.op),
                                                    !.body = r.body]]
          /\ client' = Sent(r)
    /\ UNCHANGED <<errorRate, redisClient, redis, httpRequestsTotal, pending,
                   rngMu, mu, flaky, version, resp>>

\* mu.Lock() in any of the handlers
LockV1(w) ==
    /\ req[w].pc = "lock"
    /\ mu = 0
    /\ mu' = w
    /\ req' = Goto(w, "locked")
    /\ UNCHANGED <<errorRate, redisClient, redis, httpRequestsTotal, pending,
                   rngMu, flaky, version, resp, client>>

\* checkHandler, lines 30-31
CheckLoadV1(w) ==
    /\ At(w, "check", "locked")
    /\ req' = [req EXCEPT ![w].rate = errorRate, ![w].pc = "draw"]
    /\ mu' = 0
    /\ UNCHANGED <<errorRate, redisClient, redis, httpRequestsTotal, pending,
                   rngMu, flaky, version, resp, client>>

DecideV1(sample, rate) ==
    IF FLess(sample, rate) THEN StatusBadRequest ELSE StatusOK

\* checkHandler, lines 34-41: rng is used without a lock; whatever the
\* generator does under concurrent use, Float64 gives some value of [0,1).
CheckDrawV1(w) ==
    /\ At(w, "check", "draw")
    /\ \E sample \in Samples :
          Return(w, Tagged(Plain("check", DecideV1(sample, req[w].rate)),
                           version))
    /\ UNCHANGED <<errorRate, redisClient, redis, httpRequestsTotal, pending,
                   rngMu, mu, flaky, version>>

\* healthzHandler, lines 44-47
HealthzV1(w) ==
    /\ At(w, "healthz", "respond")
    /\ Return(w, Plain("healthz", StatusOK))
    /\ UNCHANGED <<errorRate, redisClient, redis, httpRequestsTotal, pending,
                   rngMu, mu, flaky, version>>

\* setErrorRate, lines 50-53
SetDecodeV1(w) ==
    /\ At(w, "set-error-rate", "decode")
    /\ IF req[w].body.ok
       THEN /\ req' = Goto(w, "lock")
            /\ UNCHANGED <<resp, client>>
       ELSE Return(w, Plain("set-error-rate", StatusBadRequest))
    /\ UNCHANGED <<errorRate, redisClient, redis, httpRequestsTotal, pending,
                   rngMu, mu, flaky, version>>

\* setErrorRate, lines 56-57
SetStoreV1(w) ==
    /\ At(w, "set-error-rate", "locked")
    /\ errorRate' = Fraction(req[w].body)
    /\ mu' = 0
    /\ req' = Goto(w, "respond")
    /\ UNCHANGED <<redisClient, redis, httpRequestsTotal, pending, rngMu,
                   flaky, version, resp, client>>

\* setErrorRate, line 59
SetRespondV1(w) ==
    /\ At(w, "set-error-rate", "respond")
    /\ Return(w, Plain("set-error-rate", StatusOK))
    /\ UNCHANGED <<errorRate, redisClient, redis, httpRequestsTotal, pending,
                   rngMu, mu, flaky, version>>

\* getErrorRate, lines 63-65
RateLoadV1(w) ==
    /\ At(w, "error-rate", "locked")
    /\ req' = [req EXCEPT ![w].rate = FMul100(errorRate), ![w].pc = "respond"]
    /\ mu' = 0
    /\ UNCHANGED <<errorRate, redisClient, redis, httpRequestsTotal, pending,
                   rngMu, flaky, version, resp, client>>

\* getErrorRate, line 67
RateRespondV1(w) ==
    /\ At(w, "error-rate", "respond")
    /\ Return(w, Response("error-rate", StatusOK, 0, 0, req[w].rate))
    /\ UNCHANGED <<errorRate, redisClient, redis, httpRequestsTotal, pending,
                   rngMu, mu, flaky, version>>

\* main of the first revision: nothing but the rate, which starts at 0.0.
InitV1 ==
    /\ errorRate = FZero
    /\ redisClient = "nil"
    /\ flaky = FALSE
    /\ redis = [k \in Keys |-> 0]
    /\ httpRequestsTotal = [l \in Labels |-> 0]
    /\ pending = [k \in Keys |-> 0]
    /\ rngMu = 0
    /\ mu = 0
    /\ version \in Versions
    /\ req = [w \in Workers |-> Idle]
    /\ resp = [w \in Workers |-> NoResponse]
    /\ client = FreeClient(RoutesV1)

NextV1 ==
    \E w \in Workers :
        \/ AcceptV1(w)
        \/ LockV1(w)
        \/ CheckLoadV1(w)
        \/ CheckDrawV1(w)
        \/ HealthzV1(w)
        \/ SetDecodeV1(w)
        \/ SetStoreV1(w)
        \/ SetRespondV1(w)
        \/ RateLoadV1(w)
        \/ RateRespondV1(w)

SpecV1 == InitV1 /\ [][NextV1]_vars

-----------------------------------------------------------------------------
(* The second revision: src/argo-rollouts-demo-be/api.go, lines 93-245.    *)
(* The handlers of the first revision now count in httpRequestsTotal, a    *)
(* failed check answers 500, and metricsHandler reports the vector.  The   *)
(* statements under mu are those of the first revision (LockV1,            *)
(* CheckLoadV1, SetStoreV1, RateLoadV1).                                   *)

RoutesV2 == RoutesV1 \cup {Request("metrics", NoBody, TRUE)}

EntryV2(op) == IF op = "metrics" THEN "collect" ELSE EntryV1(op)

AcceptV2(w) ==
    /\ Free(w)
    /\ \E r \in Offered :
          /\ req' = [req EXCEPT ![w] = [Idle EXCEPT !.op = r.op,
                                                    !.pc = EntryV2(r.op),
                                                    !.body = r.body]]
          /\ client' = Sent(r)
    /\ UNCHANGED <<errorRate, redisClient, redis, httpRequestsTotal, pending,
                   rngMu, mu, flaky, version, resp>>

\* checkHandler, lines 138-141: rng is used without a lock.
CheckDrawV2(w) ==
    /\ At(w, "check", "draw")
    /\ \E sample \in Samples :
          req' = [req EXCEPT ![w].code = Decide(sample, req[w].rate),
                             ![w].pc = "inc"]
    /\ UNCHANGED <<errorRate, redisClient, redis, httpRequestsTotal, pending,
                   rngMu, mu, flaky, version, resp, client>>

\* checkHandler, lines 144-148
CheckRespondV2(w) ==
    /\ At(w, "check", "inc")
    /\ httpRequestsTotal' = Inc(httpRequestsTotal, "/api/check", req[w].code)
    /\ Return(w, Tagged(Plain("check", req[w].code), version))
    /\ UNCHANGED <<errorRate, redisClient, redis, pending, rngMu, mu, flaky, version>>

\* healthzHandler, lines 151-155
HealthzV2(w) ==
    /\ At(w, "healthz", "respond")
    /\ httpRequestsTotal' = Inc(httpRequestsTotal, "/api/healthz", StatusOK)
    /\ Return(w, Plain("healthz", StatusOK))
    /\ UNCHANGED <<errorRate, redisClient, redis, pending, rngMu, mu, flaky, version>>

\* setErrorRate, lines 158-162
SetDecodeV2(w) ==
    /\ At(w, "set-error-rate", "decode")
    /\ IF req[w].body.ok
       THEN /\ req' = Goto(w, "lock")
            /\ UNCHANGED <<httpRequestsTotal, resp, client>>
       ELSE /\ httpRequestsTotal' =
                  Inc(httpRequestsTotal, "/api/set-error-rate", StatusBadRequest)
            /\ Return(w, Plain("set-error-rate", StatusBadRequest))
    /\ UNCHANGED <<errorRate, redisClient, redis, pending, rngMu, mu, flaky, version>>

\* setErrorRate, lines 168-169
SetRespondV2(w) ==
    /\ At(w, "set-error-rate", "respond")
    /\ httpRequestsTotal' =
          Inc(httpRequestsTotal, "/api/set-error-rate", StatusOK)
    /\ Return(w, Plain("set-error-rate", StatusOK))
    /\ UNCHANGED <<errorRate, redisClient, redis, pending, rngMu, mu, flaky, version>>

\* getErrorRate, lines 177-178
RateRespondV2(w) ==
    /\ At(w, "error-rate", "respond")
    /\ httpRequestsTotal' = Inc(httpRequestsTotal, "/api/error-rate", StatusOK)
    /\ Return(w, Response("error-rate", StatusOK, 0, 0, req[w].rate))
    /\ UNCHANGED <<errorRate, redisClient, redis, pending, rngMu, mu, flaky, version>>

\* metricsHandler, lines 182-213: the children of the vector (a child exists
\* once it was incremented), without those of the two rate endpoints.
ReportV2(vec) ==
    [l \in {k \in Labels :
               /\ vec[k] > 0
               /\ k[1] \notin {"/api/error-rate", "/api/set-error-rate"}}
        |-> vec[l]]

\* metricsHandler, lines 181-218
MetricsV2(w) ==
    /\ At(w, "metrics", "collect")
    /\ Return(w, [op |-> "metrics", status |-> StatusOK,
                  report |-> ReportV2(httpRequestsTotal)])
    /\ UNCHANGED <<errorRate, redisClient, redis, httpRequestsTotal, pending,
                   rngMu, mu, flaky, version>>

InitV2 ==
    /\ errorRate = FZero
    /\ redisClient = "nil"
    /\ flaky = FALSE
    /\ redis = [k \in Keys |-> 0]
    /\ httpRequestsTotal = [l \in Labels |-> 0]
    /\ pending = [k \in Keys |-> 0]
    /\ rngMu = 0
    /\ mu = 0
    /\ version \in Versions
    /\ req = [w \in Workers |-> Idle]
    /\ resp = [w \in Workers |-> NoResponse]
    /\ client = FreeClient(RoutesV2)

NextV2 ==
    \E w \in Workers :
        \/ AcceptV2(w)
        \/ LockV1(w)
        \/ CheckLoadV1(w)
        \/ CheckDrawV2(w)
        \/ CheckRespondV2(w)
        \/ HealthzV2(w)
        \/ SetDecodeV2(w)
        \/ SetStoreV1(w)
        \/ SetRespondV2(w)
        \/ RateLoadV1(w)
        \/ RateRespondV2(w)
        \/ MetricsV2(w)

SpecV2 == InitV2 /\ [][NextV2]_vars

-----------------------------------------------------------------------------
(* The third revision: src/argo-rollouts-demo-be/api.go, lines 247-483.    *)
(* checkHandler now also increments the external store, within the         *)
(* request; metricsHandler reads the store's keys that were incremented in *)
(* the last 100 seconds and falls back to the vector; main keeps the       *)
(* client when the Ping fails.  The statements that did not change are     *)
(* those of the revisions before (LockV1, CheckLoadV1, CheckDrawV2,        *)
(* HealthzV2, SetDecodeV2, SetStoreV1, SetRespondV2, RateLoadV1,           *)
(* RateRespondV2), and the fallback is the one of MetricsCollect.          *)

EntryV3(op) == IF op = "metrics" THEN "keys" ELSE EntryV1(op)

AcceptV3(w) ==
    /\ Free(w)
    /\ \E r \in Offered :
          /\ req' = [req EXCEPT ![w] = [Idle EXCEPT !.op = r.op,
                                                    !.pc = EntryV3(r.op),
                                                    !.body = r.body]]
          /\ client' = Sent(r)
    /\ UNCHANGED <<errorRate, redisClient, redis, httpRequestsTotal, pending,
                   rngMu, mu, flaky, version, resp>>

\* checkHandler, line 312
CheckIncV3(w) ==
    /\ At(w, "check", "inc")
    /\ httpRequestsTotal' = Inc(httpRequestsTotal, "/api/check", req[w].code)
    /\ req' = Goto(w, "incr")
    /\ UNCHANGED <<errorRate, redisClient, redis, pending, rngMu, mu, flaky, version,
                   resp, client>>

\* checkHandler, lines 315-317: redisClient.Incr within the request; the
\* handler goes on when the store has answered or the call has failed.
CheckIncrV3(w) ==
    /\ At(w, "check", "incr")
    /\ \E ok \in Served :
          redis' = IF ok THEN [redis EXCEPT ![Key(req[w].code)] = @ + 1]
                   ELSE redis
    /\ req' = Goto(w, "set")
    /\ UNCHANGED <<errorRate, redisClient, httpRequestsTotal, pending, rngMu,
                   mu, flaky, version, resp, client>>

\* checkHandler, lines 318-322: the time of the increment is written beside
\* the key, and the response goes out.
CheckRespondV3(w) ==
    /\ At(w, "check", "set")
    /\ Return(w, Tagged(Plain("check", req[w].code), version))
    /\ UNCHANGED <<errorRate, redisClient, redis, httpRequestsTotal, pending,
                   rngMu, mu, flaky, version>>

\* metricsHandler, lines 363-366: a failed Keys call ends the request.
MetricsKeysV3(w) ==
    /\ At(w, "metrics", "keys")
    /\ \E ok \in Served :
          IF ok
          THEN /\ req' = Goto(w, "window")
               /\ UNCHANGED <<resp, client>>
          ELSE Return(w, Plain("metrics", StatusInternalServerError))
    /\ UNCHANGED <<errorRate, redisClient, redis, httpRequestsTotal, pending,
                   rngMu, mu, flaky, version>>

\* The count the loop takes for a key: the key's value when the key exists,
\* its last increment is recorded and lies in the window, and the Get is
\* served; 0 otherwise.
InWindow(store, key, recent, ok) ==
    IF store[key] > 0 /\ recent /\ ok THEN store[key] ELSE 0

\* metricsHandler, lines 369-399
MetricsWindowV3(w) ==
    /\ At(w, "metrics", "window")
    /\ \E recent200, recent500 \in BOOLEAN, ok200, ok500 \in Served :
          req' = [req EXCEPT
                    ![w].count200 = InWindow(redis, "status_200", recent200, ok200),
                    ![w].ext200 = InWindow(redis, "status_200", recent200, ok200),
                    ![w].count500 = InWindow(redis, "status_500", recent500, ok500),
                    ![w].ext500 = InWindow(redis, "status_500", recent500, ok500),
                    ![w].pc = "collect"]
    /\ UNCHANGED <<errorRate, redisClient, redis, httpRequestsTotal, pending,
                   rngMu, mu, flaky, version, resp, client>>

\* main, lines 449-458: the Ping may fail; the client is kept either way
\* ("failed" is the client whose Ping failed).
InitV3 ==
    /\ errorRate = FZero
    /\ redisClient \in {"client", "failed"}
    /\ flaky \in (IF redisClient = "failed" THEN {TRUE} ELSE BOOLEAN)
    /\ redis = [k \in Keys |-> 0]
    /\ httpRequestsTotal = [l \in Labels |-> 0]
    /\ pending = [k \in Keys |-> 0]
    /\ rngMu = 0
    /\ mu = 0
    /\ version \in Versions
    /\ req = [w \in Workers |-> Idle]
    /\ resp = [w \in Workers |-> NoResponse]
    /\ client = FreeClient(RoutesV2)

NextV3 ==
    \E w \in Workers :
        \/ AcceptV3(w)
        \/ LockV1(w)
        \/ CheckLoadV1(w)
        \/ CheckDrawV2(w)
        \/ CheckIncV3(w)
        \/ CheckIncrV3(w)
        \/ CheckRespondV3(w)
        \/ HealthzV2(w)
        \/ SetDecodeV2(w)
        \/ SetStoreV1(w)
        \/ SetRespondV2(w)
        \/ RateLoadV1(w)
        \/ RateRespondV2(w)
        \/ MetricsKeysV3(w)
        \/ MetricsWindowV3(w)
        \/ MetricsCollect(w)
        \/ MetricsRespond(w)

SpecV3 == InitV3 /\ [][NextV3]_vars

-----------------------------------------------------------------------------
(* The fourth revision: src/unnamed/part_004.  The store is read with two  *)
(* Gets and there is a reset, as in the current revision but on a client   *)
(* that is never nil (MetricsGet200 ... MetricsRespond, ResetDel ...       *)
(* ResetRespond); the rate is still under mu and checkHandler still calls  *)
(* redisClient.Incr within the request (CheckIncrV3, without the Set that  *)
(* followed it).                                                           *)

EntryV4(op) ==
    IF op \in {"metrics", "reset-metrics"} THEN Entry(op) ELSE EntryV1(op)

AcceptV4(w) ==
    /\ Free(w)
    /\ \E r \in Offered :
          /\ req' = Observe([req EXCEPT ![w] = [Idle EXCEPT !.op = r.op,
                                                            !.pc = EntryV4(r.op),
                                                            !.body = r.body,
                                                            !.quiet = Quiet]],
                            redis, httpRequestsTotal)
          /\ client' = Sent(r)
    /\ UNCHANGED <<errorRate, redisClient, redis, httpRequestsTotal, pending,
                   rngMu, mu, flaky, version, resp>>

\* main, lines 176-185: as in the third revision.
InitV4 ==
    /\ errorRate = FZero
    /\ redisClient \in {"client", "failed"}
    /\ flaky \in (IF redisClient = "failed" THEN {TRUE} ELSE BOOLEAN)
    /\ redis = [k \in Keys |-> 0]
    /\ httpRequestsTotal = [l \in Labels |-> 0]
    /\ pending = [k \in Keys |-> 0]
    /\ rngMu = 0
    /\ mu = 0
    /\ version \in Versions
    /\ req = [w \in Workers |-> Idle]
    /\ resp = [w \in Workers |-> NoResponse]
    /\ client = FreeClient(Routes)

NextV4 ==
    \E w \in Workers :
        \/ AcceptV4(w)
        \/ LockV1(w)
        \/ CheckLoadV1(w)
        \/ CheckDrawV2(w)
        \/ CheckIncV3(w)
        \/ CheckIncrV3(w)
        \/ CheckRespondV3(w)
        \/ HealthzV2(w)
        \/ SetDecodeV2(w)
        \/ SetStoreV1(w)
        \/ SetRespondV2(w)
        \/ RateLoadV1(w)
        \/ RateRespondV2(w)
        \/ ResetMetrics(w)
        \/ Metrics(w)

SpecV4 == InitV4 /\ [][NextV4]_vars

-----------------------------------------------------------------------------
(* Properties.                                                             *)

\* The responses a scripted client has received so far.
Log == client.log

\* The number of responses of a route that carried a status.
Count(op, status) ==
    Cardinality({i \in 1..Len(Log) : Log[i].op = op /\ Log[i].status = status})

\* The script is over and every handler has returned.
Done == client.todo = <<>> /\ Busy = {}

\* C1: once all the check requests of a burst have completed, the counter of
\* each status code equals the number of checks that produced it: in the
\* in-process vector, and in the external store once the increments it was
\* sent have run and it served them all.
NoLostIncrement ==
    Done =>
        \A c \in Codes :
            /\ httpRequestsTotal[<<"/api/check", c>>] = Count("check", c)
            /\ (redisClient # "nil" /\ ~flaky /\ Quiet)
                   => redis[Key(c)] = Count("check", c)

\* C1, reached: a burst of BurstLen checks that overlapped, all of which
\* failed, is counted BurstLen times in both places.
BurstCounted ==
    /\ Done
    /\ client.peak >= 2
    /\ Count("check", StatusInternalServerError) = BurstLen
    /\ httpRequestsTotal[<<"/api/check", StatusInternalServerError>>] = BurstLen
    /\ redis["status_500"] = BurstLen

\* C2: the snapshot that follows a reset directly reports 0 for both codes,
\* whatever checks came before the reset (the store serving every call).
ZeroAfterReset ==
    ~flaky =>
        \A i \in 1..(Len(Log) - 1) :
            (Log[i].op = "reset-metrics" /\ Log[i + 1].op = "metrics")
                => (Log[i + 1].count200 = 0 /\ Log[i + 1].count500 = 0)

\* C3: a reset, then one check that returns 200, then a snapshot: the
\* snapshot reports one 200 and no 500 (the store serving every call).
OneAfterReset ==
    ~flaky =>
        \A i \in 1..(Len(Log) - 2) :
            (/\ Log[i].op = "reset-metrics"
             /\ Log[i + 1].op = "check" /\ Log[i + 1].status = StatusOK
             /\ Log[i + 2].op = "metrics")
                => (Log[i + 2].count200 = 1 /\ Log[i + 2].count500 = 0)

\* C4: with the rate at 100 every one of the TenChecks checks fails, and the
\* snapshot after the last response reports no more 200s and TenChecks more
\* 500s than the snapshot before the first (the store serving every call).
TenFailuresReported ==
    (~flaky /\ Len(Log) = TenChecks + 3) =>
        /\ \A i \in 3..(TenChecks + 2) :
              Log[i].status = StatusInternalServerError
        /\ Log[TenChecks + 3].count200 - Log[2].count200 = 0
        /\ Log[TenChecks + 3].count500 - Log[2].count500 = TenChecks

\* C5: of two snapshots with no reset between them, the later reports at
\* least what the earlier did, for both codes (the store serving every call).
MonotoneBetweenResets ==
    ~flaky =>
        \A i, j \in 1..Len(Log) :
            (/\ i < j
             /\ Log[i].op = "metrics" /\ Log[j].op = "metrics"
             /\ \A k \in i..j : Log[k].op # "reset-metrics")
                => (/\ Log[i].count200 <= Log[j].count200
                    /\ Log[i].count500 <= Log[j].count500)

\* C6: the pair a snapshot is about to return is a pair that its source, the
\* external store or the in-process vector, held at one instant of the
\* request (the store serving every call).
SnapshotHeldAtOnce ==
    ~flaky =>
        \A w \in Workers :
            At(w, "metrics", "respond")
                => <<req[w].count200, req[w].count500>>
                       \in (req[w].heldExt \cup req[w].heldLoc)

\* C7: a snapshot returns the two counts the external store reported when
\* one of them is not zero, and the two in-process counts of the check
\* endpoint when both are zero or the store is not connected; never one of
\* each.
ExternalElseLocal ==
    \A w \in Workers :
        At(w, "metrics", "respond") =>
            IF req[w].ext200 # 0 \/ req[w].ext500 # 0
            THEN /\ redisClient # "nil"
                 /\ ~req[w].fellBack
                 /\ req[w].count200 = req[w].ext200
                 /\ req[w].count500 = req[w].ext500
            ELSE /\ req[w].fellBack
                 /\ req[w].count200 = req[w].loc200
                 /\ req[w].count500 = req[w].loc500
                 /\ <<req[w].loc200, req[w].loc500>> \in req[w].heldLoc

\* C7, reached: a connected store reported zero for both codes and the
\* snapshot returns the in-process counts, which are not both zero.
FellBackToLocal ==
    \E w \in Workers :
        /\ At(w, "metrics", "respond")
        /\ redisClient # "nil"
        /\ req[w].fellBack
        /\ req[w].count200 + req[w].count500 > 0

\* C8: when a reset that met no outstanding increment returns, the external
\* store's two counters and the in-process counters of the check endpoint
\* are zero, also when the store's delete fails.
ResetClearsBoth ==
    [][\A w \in Workers :
          (At(w, "reset-metrics", "inc") /\ req[w].quiet /\ req'[w].op = "idle")
              => (ExtPair(redis') = <<0, 0>>
                  /\ LocPair(httpRequestsTotal') = <<0, 0>>)]_vars

\* C9: no step of a set-error-rate request whose value is below 0 or above
\* 100 changes the stored rate, and the request is answered with 400.
OutOfRangeRejected ==
    [][\A w \in Workers :
          (/\ req[w].op = "set-error-rate"
           /\ req[w].body.ok /\ OutOfRange(req[w].body)
           /\ req'[w] # req[w])
              => (/\ errorRate' = errorRate
                  /\ req'[w].op = "idle"
                        => resp'[w].status = StatusBadRequest)]_vars

\* 0 <= f <= 1
InUnit(f) == ~FLess(f, FZero) /\ ~FLess(FOne, f)

\* C10: the stored rate is a fraction within [0,1] in every reachable state,
\* whatever values the set-error-rate requests carried.
RateInUnit == InUnit(errorRate)

\* The float64 a JSON number num/den decodes to.
Decoded(body) == FDiv(body.num, body.den)

\* C11: a set-error-rate that succeeded with the value p, directly followed
\* by a get of the rate, returns p.
RoundTrip ==
    \A i \in 1..(Len(Log) - 1) :
        (/\ client.sent[i].op = "set-error-rate"
         /\ Log[i].status = StatusOK
         /\ Log[i + 1].op = "error-rate")
            => Log[i + 1].value = Decoded(client.sent[i].body)

\* C12: a check that read the rate 0 ends with 200 and a check that read the
\* rate 1.0 (100 percent) ends with 500, whatever sample it drew.
CertainOutcome ==
    \A w \in Workers :
        (req[w].op = "check" /\ req[w].pc \in {"inc", "go"}) =>
            /\ req[w].rate = FZero => req[w].code = StatusOK
            /\ req[w].rate = FOne => req[w].code = StatusInternalServerError

\* C12, reached: a check that read the rate 1.0 has drawn and is failing.
FailsAtFullRate ==
    \E w \in Workers :
        /\ At(w, "check", "go")
        /\ req[w].rate = FOne
        /\ req[w].code = StatusInternalServerError

\* The steps of the handler that worker w runs.
StepOf(w) == req'[w].pc # req[w].pc /\ req[w].op # "idle"

\* C13: a check request counts once, under the status it returns: its step
\* at the counter adds 1 to that status and nothing else, its last step
\* spawns one external increment of that status (none without a store) and
\* returns that status; and nothing but a check (or the reset) changes the
\* check counters or spawns an increment.
CheckCountsOnce ==
    [][/\ \A w \in Workers :
             /\ (At(w, "check", "inc") /\ StepOf(w)) =>
                    /\ httpRequestsTotal' =
                          [httpRequestsTotal EXCEPT
                              ![<<"/api/check", req[w].code>>] = @ + 1]
                    /\ pending' = pending
             /\ (At(w, "check", "go") /\ StepOf(w)) =>
                    /\ resp'[w].status = req[w].code
                    /\ LocPair(httpRequestsTotal') = LocPair(httpRequestsTotal)
                    /\ \A k \in Keys :
                          pending'[k] =
                             pending[k] +
                             (IF k = Key(req[w].code) /\ redisClient # "nil"
                              THEN 1 ELSE 0)
       /\ (\E w \in Workers :
              StepOf(w) /\ req[w].op \notin {"check", "reset-metrics"}) =>
              /\ LocPair(httpRequestsTotal') = LocPair(httpRequestsTotal)
              /\ pending' = pending /\ redis' = redis]_vars

\* C13, reached: a healthz and a check have both completed, and the check
\* counters hold that one success and nothing else.
OneCheckCounted ==
    /\ Busy = {}
    /\ httpRequestsTotal[<<"/api/healthz", StatusOK>>] = 1
    /\ \E w \in Workers : resp[w].op = "check" /\ resp[w].status = StatusOK
    /\ LocPair(httpRequestsTotal) = <<1, 0>>

\* C14: what the second revision's metrics reports is counts of the check
\* endpoint only.
ReportsOnlyChecks ==
    \A w \in Workers :
        resp[w].op = "metrics" =>
            \A l \in DOMAIN resp[w].report : l[1] = "/api/check"

\* C15: a failure of the external store is never passed on to the caller:
\* a check is answered with 200 or 500, a snapshot and a reset with 200.
StoreFailureHidden ==
    \A w \in Workers :
        /\ resp[w].op = "check" => resp[w].status \in Codes
        /\ resp[w].op \in {"metrics", "reset-metrics"}
              => resp[w].status = StatusOK

\* The steps on which a handler of the third revision calls the store.
StoreCallV3(w) ==
    /\ StepOf(w)
    /\ \/ At(w, "check", "incr")
       \/ At(w, "metrics", "keys")

\* C16: when the store was unreachable at startup no request calls it.
NoStoreAfterFailedPing ==
    [][redisClient = "failed" => \A w \in Workers : ~StoreCallV3(w)]_vars

\* The handler of worker w is inside a call on the store and goes on only
\* when the store has answered or the call has given up.
AwaitsStore(w) == req[w].pc = "incr"

\* C17: a check request never waits for the external store: its response is
\* produced whether or not the increment has completed.
CheckNeverAwaitsStore ==
    \A w \in Workers : req[w].op = "check" => ~AwaitsStore(w)

\* C18: the version tag never changes after the start, and every check
\* response, 200 or 500, carries it in X-Version.
VersionFixed ==
    [][/\ version' = version
       /\ \A w \in Workers :
             resp'[w].op = "check" => resp'[w].xVersion = version]_vars

\* C18, reached: a failed check has been answered with the tag of a process
\* that was started with a version other than the default.
FailureTagged ==
    \E w \in Workers :
        /\ resp[w].op = "check"
        /\ resp[w].status = StatusInternalServerError
        /\ version = "2"
        /\ resp[w].xVersion = "2"

\* C19: at most one handler is at the call of rng.Float64() at any time.
OneDrawAtATime ==
    Cardinality({w \in Workers : At(w, "check", "draw")}) <= 1

\* The rates the requests of a client can store, and the initial one.
StoredRates == {FZero} \cup {Fraction(b) : b \in {c \in Bodies : Accepted(c)}}

\* C20: the rate is always, and every handler has always read, the initial
\* value or a value that a set-error-rate stores, whole.
RateReadWhole ==
    /\ errorRate \in StoredRates
    /\ \A w \in Workers :
          /\ (req[w].op = "check" /\ req[w].pc # "load")
                => req[w].rate \in StoredRates
          /\ At(w, "error-rate", "inc")
                => req[w].rate \in {FMul100(r) : r \in StoredRates}

\* C20, reached: a check has read the rate that a set-error-rate request
\* stored and has not yet answered for.
ReadDuringSet ==
    \E w, v \in Workers :
        /\ At(w, "set-error-rate", "inc")
        /\ req[v].op = "check" /\ req[v].pc # "load"
        /\ req[v].rate = Fraction(req[w].body)
        /\ req[v].rate # FZero

\* The checks answered with a status since the last reset (the last among
\* the responses received, position 0 when there was none).
Since(status) ==
    LET rs == {i \in 1..Len(Log) : Log[i].op = "reset-metrics"}
        last == IF rs = {} THEN 0 ELSE CHOOSE i \in rs : \A j \in rs : j <= i
    IN  Cardinality({i \in (last + 1)..Len(Log) :
                        Log[i].op = "check" /\ Log[i].status = status})

\* C21: once the checks have stopped and every increment they spawned has
\* run, with every call on the store served, a snapshot reports for each
\* status code the number of checks answered with it since the last reset.
SettledSnapshotExact ==
    ~flaky =>
        \A w \in Workers :
            (At(w, "metrics", "respond") /\ req[w].quiet) =>
                /\ req[w].count200 = Since(StatusOK)
                /\ req[w].count500 = Since(StatusInternalServerError)

BadJSONRejected ==
    [][\A w \in Workers :
          (req[w].op = "set-error-rate" /\ ~req[w].body.ok /\ StepOf(w)) =>
              /\ req'[w].op = "idle"
              /\ resp'[w] = Plain("set-error-rate", StatusBadRequest)
              /\ errorRate' = errorRate
              /\ redis' = redis
              /\ pending' = pending]_vars

\* C23, reached: after a request that set the rate to 100, a request with a
\* malformed body was answered with 400 and the rate is still 1.0.
RateKeptAfterBadJSON ==
    /\ Len(Log) = 2
    /\ client.sent[1] = Request("set-error-rate", Value(100, 1), FALSE)
    /\ client.sent[2] = Request("set-error-rate", BadJSON, FALSE)
    /\ Log[2] = Plain("set-error-rate", StatusBadRequest)
    /\ errorRate = FOne

\* C24: when the store held counts that were not both zero at the stop and
\* the next process has the store in use, the snapshot that directly
\* follows the restart reports the counts the store held, not zero.
CountsSurviveRestart ==
    \A i \in 1..(Len(Log) - 1) :
        (/\ Log[i].op = "restart" /\ Log[i].inUse
         /\ Log[i].count200 + Log[i].count500 > 0
         /\ Log[i + 1].op = "metrics")
            => (/\ Log[i + 1].count200 = Log[i].count200
                /\ Log[i + 1].count500 = Log[i].count500)

\* C24, reached: the process was restarted with a failed check in the store
\* and its first snapshot reports it, the in-process counters being empty.
ReportedAfterRestart ==
    /\ Len(Log) = RestartLen
    /\ Log[RestartLen - 1].op = "restart" /\ Log[RestartLen - 1].inUse
    /\ Log[RestartLen - 1].count500 = 1
    /\ Log[RestartLen].op = "metrics" /\ Log[RestartLen].count500 = 1
    /\ LocPair(httpRequestsTotal) = <<0, 0>>

\* No step of a metrics request changes the rate, a counter of the vector,
\* a counter of the store or the increments outstanding.
MetricsFrame ==
    \A w \in Workers :
        (req[w].op = "metrics" /\ StepOf(w)) =>
            /\ errorRate' = errorRate
            /\ httpRequestsTotal' = httpRequestsTotal
            /\ redis' = redis
            /\ pending' = pending

IssuesStoreOp(w) ==
    \/ (req[w].op = "check" /\ req[w].pc \in {"go", "incr"})
    \/ At(w, "reset-metrics", "del")
    \/ (req[w].op = "metrics" /\ req[w].pc \in {"get200", "get500"})

\* C26: a handler that is about to issue an operation to the external store
\* holds neither rngMu nor mu.
NoLockAcrossStore ==
    \A w \in Workers : IssuesStoreOp(w) => (rngMu # w /\ mu # w)

\* C26, reached: a check is about to spawn its increment while another
\* check holds rngMu.
StoreOpBesideLock ==
    \E w, v \in Workers :
        /\ At(w, "check", "go") /\ redisClient = "client"
        /\ v # w /\ rngMu = v

\* No set-error-rate request has stored a rate yet: those received so far
\* with a body that is accepted have not got past the decoder.
NoSetStored ==
    Cardinality({i \in 1..Len(client.sent) :
                    /\ client.sent[i].op = "set-error-rate"
                    /\ Accepted(client.sent[i].body)})
        = Cardinality({w \in Workers :
                          /\ At(w, "set-error-rate", "decode")
                          /\ Accepted(req[w].body)})

\* C27: as long as no set-error-rate request has taken effect, every read
\* of the rate has returned 0 and every check has returned 200.
DefaultRate ==
    NoSetStored =>
        \A i \in 1..Len(Log) :
            /\ Log[i].op = "error-rate" => Log[i].value = FZero
            /\ Log[i].op = "check" => Log[i].status = StatusOK

\* C27, reached: a set-error-rate request was refused, a check after it
\* returned 200 and a read of the rate 0, and a request to set the rate to
\* 100 has come in but has not stored it.
DefaultAfterRefusal ==
    /\ NoSetStored
    /\ \E w \in Workers : At(w, "set-error-rate", "decode")
    /\ \E i, j \in 1..Len(Log) :
          /\ i < j
          /\ Log[i] = Plain("set-error-rate", StatusBadRequest)
          /\ Log[j].op \in {"check", "error-rate"}
          /\ Log[j].status = StatusOK

\* The checks since the start of the process whose status is decided and is
\* this one: those answered and those past the draw.
Determined(status) ==
    Count("check", status)
    + Cardinality({w \in Workers :
                      /\ req[w].op = "check" /\ req[w].pc \in {"inc", "go"}
                      /\ req[w].code = status})

\* C28: a process started on an empty store never reports, for a status
\* code, more than the number of checks that have decided on that code
\* since it started.
NeverOverCounts ==
    \A w \in Workers :
        At(w, "metrics", "respond") =>
            /\ req[w].count200 <= Determined(StatusOK)
            /\ req[w].count500 <= Determined(StatusInternalServerError)

\* C28, reached: a snapshot is about to report one success from the store
\* when two checks have decided on 200.
ReportsFewer ==
    \E w \in Workers :
        /\ At(w, "metrics", "respond") /\ ~req[w].fellBack
        /\ req[w].count200 = 1
        /\ Determined(StatusOK) = 2

\* C29: on a store that serves every call, whenever no check and no reset
\* is in progress and no increment is outstanding, the store holds for each
\* status code what the in-process counter of the check endpoint holds.
StoreMatchesLocal ==
    (/\ redisClient = "client" /\ ~flaky
     /\ Quiet
     /\ \A w \in Workers : req[w].op \notin {"check", "reset-metrics"})
        => ExtPair(redis) = LocPair(httpRequestsTotal)

\* C30: a step on which a counter of the vector or of the store decreases
\* is a step of a reset-metrics request; no step of any other request, no
\* increment and no failed call on the store lowers a counter.
OnlyResetDecreases ==
    [][(\/ \E l \in Labels : httpRequestsTotal'[l] < httpRequestsTotal[l]
        \/ \E k \in Keys : redis'[k] < redis[k])
          => \E w \in Workers : req[w].op = "reset-metrics" /\ StepOf(w)]_vars

\* C30, reached: a check was counted in the vector and in the store, and a
\* reset, alone in the process, has just deleted the store's counter.
ResetLowered ==
    \E w \in Workers :
        /\ At(w, "reset-metrics", "reset")
        /\ \A v \in Workers \ {w} : req[v].op = "idle"
        /\ redisClient = "client" /\ ~flaky /\ Quiet
        /\ LocPair(httpRequestsTotal) = <<1, 0>>
        /\ ExtPair(redis) = <<0, 0>>

=============================================================================
